---- MODULE Spec2Model ----
(***************************************************************************)
(* Model of pdf2md.py: the line filter (is_header_footer), the line merger *)
(* (should_merge_lines, merge_lines), the two heading recognisers          *)
(* (is_section_title, identify_structure) and the structuring and          *)
(* rendering passes of convert_raw_to_markdown.                            *)
(*                                                                         *)
(* A Python string is a sequence of characters; a character is a TLA+      *)
(* string naming it.  ASCII characters name themselves; the others are:    *)
(*   di 第  zhang 章  jie 节  ye 页  yi 一  shi 十  (numerals 一..零)      *)
(*   mu 目  lu 录  ci 次  qian 前  yan 言  xu 序  yin 引  zhi 致  xie 谢   *)
(*   fu 附  can 参  kao 考  wen 文  xian 献  ban 版  quan 权  suo 所       *)
(*   you 有  copy ©  zi  (any other CJK character)                         *)
(*   c_stop 。 c_excl ！ c_ques ？ c_semi ； c_colon ：  fw_dot ．         *)
(*   fw_sp (U+3000 ideographic space)  tab                                 *)
(***************************************************************************)
EXTENDS Integers, Sequences, FiniteSets, TLC

(* ------------------------------------------------------------------ *)
(* Characters and the str methods the program uses                     *)
(* ------------------------------------------------------------------ *)

\* characters for which str.isspace() holds: removed by str.strip(), matched by \s
Whitespace == {" ", "fw_sp", "tab"}

\* characters for which str.isdigit() holds and that [0-9] and \d match
Digits == {"0", "1", "2", "3", "4", "5", "6", "7", "8", "9"}

\* the class [一二三四五六七八九十百千万零0-9] of the chapter and section patterns
ChapterNumerals == {"yi", "shi"} \cup Digits

\* str.lower() on one character
LowerChar(c) ==
    CASE c = "A" -> "a" [] c = "B" -> "b" [] c = "C" -> "c" [] c = "D" -> "d"
      [] c = "E" -> "e" [] c = "F" -> "f" [] c = "G" -> "g" [] c = "H" -> "h"
      [] c = "I" -> "i" [] c = "J" -> "j" [] c = "K" -> "k" [] c = "L" -> "l"
      [] c = "M" -> "m" [] c = "N" -> "n" [] c = "O" -> "o" [] c = "P" -> "p"
      [] c = "Q" -> "q" [] c = "R" -> "r" [] c = "S" -> "s" [] c = "T" -> "t"
      [] c = "U" -> "u" [] c = "V" -> "v" [] c = "W" -> "w" [] c = "X" -> "x"
      [] c = "Y" -> "y" [] c = "Z" -> "z" [] OTHER -> c

\* str.lower()
Lower(s) == [k \in 1..Len(s) |-> LowerChar(s[k])]

\* s[from:] for a 1-based position
Drop(s, n) == SubSeq(s, n + 1, Len(s))

\* str.strip(): leading and trailing whitespace removed
RECURSIVE LStrip(_)
LStrip(s) == IF s # <<>> /\ s[1] \in Whitespace THEN LStrip(Tail(s)) ELSE s

RECURSIVE RStrip(_)
RStrip(s) ==
    IF s # <<>> /\ s[Len(s)] \in Whitespace THEN RStrip(SubSeq(s, 1, Len(s) - 1)) ELSE s

Strip(s) == RStrip(LStrip(s))

\* str.startswith / str.endswith / the in operator on strings
StartsWith(s, p) == Len(p) <= Len(s) /\ SubSeq(s, 1, Len(p)) = p

EndsWith(s, p) == Len(p) <= Len(s) /\ SubSeq(s, Len(s) - Len(p) + 1, Len(s)) = p

Contains(s, p) == \E k \in 0..(Len(s) - Len(p)) : SubSeq(s, k + 1, k + Len(p)) = p

\* str.isdigit(): non-empty and every character a digit
IsDigit(s) == s # <<>> /\ \A k \in 1..Len(s) : s[k] \in Digits

\* length of the longest prefix of s made of characters of class cls (a greedy cls*)
RECURSIVE Run(_, _)
Run(s, cls) == IF s # <<>> /\ s[1] \in cls THEN 1 + Run(Tail(s), cls) ELSE 0

\* position reached from n (characters already consumed) by a greedy cls*
SkipRun(s, n, cls) == n + Run(Drop(s, n), cls)

\* whether literal p occurs in s right after the first n characters
LitAt(s, n, p) == StartsWith(Drop(s, n), p)

(* ------------------------------------------------------------------ *)
(* Literals of the program                                             *)
(* ------------------------------------------------------------------ *)

MarkerHead == <<"-", "-", "-", " ", "di">>
MarkerTail == <<"ye", " ", "-", "-", "-">>
KwPage == <<"P", "a", "g", "e">>
CommonHeaderFooter == {<<"copy">>, <<"ban", "quan", "suo", "you">>}
EndPunctuation ==
    {"c_stop", "c_excl", "c_ques", "c_semi", "c_colon", ".", "!", "?", ";", ":"}
StartPunctuation ==
    {"c_stop", "c_excl", "c_ques", "c_semi", "c_colon", ".", "!", "?", ";", ":"}
ShortLen == 10
KwContents == <<"C", "O", "N", "T", "E", "N", "T", "S">>
KwTableOfContents ==
    <<"T", "A", "B", "L", "E", " ", "O", "F", " ", "C", "O", "N", "T", "E", "N", "T", "S">>
PrefaceWords ==
    { <<"qian", "yan">>, <<"xu", "yan">>, <<"yin", "yan">>, <<"zhi", "xie">>, <<"xu">>,
      <<"p", "r", "e", "f", "a", "c", "e">>,
      <<"i", "n", "t", "r", "o", "d", "u", "c", "t", "i", "o", "n">>,
      <<"a", "c", "k", "n", "o", "w", "l", "e", "d", "g", "e", "m", "e", "n", "t">> }
AppendixWords == { <<"fu", "lu">>, <<"a", "p", "p", "e", "n", "d", "i", "x">> }
ReferencesWords ==
    { <<"can", "kao", "wen", "xian">>, <<"r", "e", "f", "e", "r", "e", "n", "c", "e", "s">> }
TitleLabels == {"preface", "chapter", "section", "appendix", "references"}
TocLabels == {"toc_header", "toc_item"}

(* ------------------------------------------------------------------ *)
(* is_header_footer                                                    *)
(* ------------------------------------------------------------------ *)

\* re.match(r"^--- 第 \d+ 页 ---$", t)
MatchPageMarker(t) ==
    /\ StartsWith(t, MarkerHead \o <<" ">>)
    /\ LET a == Len(MarkerHead) + 1
           b == SkipRun(t, a, Digits)
       IN  b > a /\ Drop(t, b) = <<" ">> \o MarkerTail

\* re.match(r'^第\s*\d+\s*页$', t)
MatchPageNo(t) ==
    /\ StartsWith(t, <<"di">>)
    /\ LET a == SkipRun(t, 1, Whitespace)
           b == SkipRun(t, a, Digits)
           c == SkipRun(t, b, Whitespace)
       IN  b > a /\ Drop(t, c) = <<"ye">>

\* re.match(r'^Page\s*\d+\s*of\s*\d+$', t)
MatchPageOf(t) ==
    /\ StartsWith(t, KwPage)
    /\ LET a == SkipRun(t, Len(KwPage), Whitespace)
           b == SkipRun(t, a, Digits)
           c == SkipRun(t, b, Whitespace)
           d == SkipRun(t, c + 2, Whitespace)
           e == SkipRun(t, d, Digits)
       IN  b > a /\ LitAt(t, c, <<"o", "f">>) /\ e > d /\ e = Len(t)

is_header_footer(text) ==
    IF text = <<>> THEN TRUE
    ELSE IF IsDigit(Strip(text)) THEN TRUE
    ELSE IF MatchPageMarker(Strip(text)) THEN TRUE
    ELSE IF Strip(text) = <<"ye">> \/ Strip(text) = KwPage THEN TRUE
    ELSE IF MatchPageNo(Strip(text)) \/ MatchPageOf(Strip(text)) THEN TRUE
    ELSE \E keyword \in CommonHeaderFooter : Contains(text, keyword)

(* ------------------------------------------------------------------ *)
(* should_merge_lines, merge_lines                                     *)
(* ------------------------------------------------------------------ *)

\* should_merge_lines with the last test wrong: one short line is enough to refuse
should_merge_lines_either_short(line1, line2) ==
    IF line1 = <<>> \/ line2 = <<>> THEN FALSE
    ELSE IF \E p \in EndPunctuation : EndsWith(line1, <<p>>) THEN FALSE
    ELSE IF \E p \in StartPunctuation : StartsWith(line2, <<p>>) THEN FALSE
    ELSE IF Len(line1) < ShortLen \/ Len(line2) < ShortLen THEN FALSE
    ELSE TRUE

should_merge_lines(line1, line2) ==
    IF line1 = <<>> \/ line2 = <<>> THEN FALSE
    ELSE IF \E p \in EndPunctuation : EndsWith(line1, <<p>>) THEN FALSE
    ELSE IF \E p \in StartPunctuation : StartsWith(line2, <<p>>) THEN FALSE
    ELSE IF Len(line1) < ShortLen /\ Len(line2) < ShortLen THEN FALSE
    ELSE TRUE

(* A line of the structuring pass is a record: text is the Python string,  *)
(* src the positions of the raw lines the text was taken from, in order.   *)
(* src is history only: no decision of the program reads it.               *)
Line(text, src) == [text |-> text, src |-> src]

\* current_line += next_line
Join(current_line, next_line) ==
    Line(current_line.text \o next_line.text, current_line.src \o next_line.src)

\* the loop of merge_lines: rest is lines[1:] not yet visited
RECURSIVE MergeLoop(_, _, _)
MergeLoop(merged_lines, current_line, rest) ==
    IF rest = <<>> THEN Append(merged_lines, current_line)
    ELSE IF should_merge_lines(current_line.text, Head(rest).text)
         THEN MergeLoop(merged_lines, Join(current_line, Head(rest)), Tail(rest))
         ELSE MergeLoop(Append(merged_lines, current_line), Head(rest), Tail(rest))

\* merge_lines without line 79: the last accumulated line is never appended
merge_lines_last_lost(lines) ==
    IF lines = <<>> THEN <<>>
    ELSE LET merged_lines == MergeLoop(<<>>, lines[1], Tail(lines))
         IN  SubSeq(merged_lines, 1, Len(merged_lines) - 1)

merge_lines(lines) ==
    IF lines = <<>> THEN <<>> ELSE MergeLoop(<<>>, lines[1], Tail(lines))

(* ------------------------------------------------------------------ *)
(* is_section_title, identify_structure                                *)
(* ------------------------------------------------------------------ *)

\* length of the match of ^第[一二三四五六七八九十百千万零0-9]+<mark> at the start of s, 0 if none
NumeralHead(s, mark) ==
    IF ~StartsWith(s, <<"di">>) THEN 0
    ELSE LET b == SkipRun(s, 1, ChapterNumerals)
         IN  IF b > 1 /\ LitAt(s, b, <<mark>>) THEN b + 1 ELSE 0

\* is_section_title asking for no blank after 第X章
is_section_title_loose(line) ==
    IF line = <<>> \/ Strip(line) = <<>> THEN FALSE
    ELSE LET l == Strip(line)
             ch == NumeralHead(l, "zhang")
             se == NumeralHead(l, "jie")
         IN  IF ch > 0 THEN TRUE
             ELSE IF se > 0 /\ LitAt(l, se, <<" ">>) THEN TRUE
             ELSE FALSE

is_section_title(line) ==
    IF line = <<>> \/ Strip(line) = <<>> THEN FALSE
    ELSE LET l == Strip(line)
             ch == NumeralHead(l, "zhang")
             se == NumeralHead(l, "jie")
         IN  IF ch > 0 /\ ch = Len(l) THEN TRUE
             ELSE IF ch > 0 /\ LitAt(l, ch, <<" ">>) THEN TRUE
             ELSE IF se > 0 /\ LitAt(l, se, <<" ">>) THEN TRUE
             ELSE FALSE

\* re.match(r'^(目\s*录|目\s*次|CONTENTS|TABLE OF CONTENTS)$', text_lower, re.IGNORECASE)
MatchToc(text_lower) ==
    \/ /\ StartsWith(text_lower, <<"mu">>)
       /\ LET a == SkipRun(text_lower, 1, Whitespace)
          IN  Drop(text_lower, a) \in {<<"lu">>, <<"ci">>}
    \/ Lower(text_lower) \in {Lower(KwContents), Lower(KwTableOfContents)}

\* re.match(r'^([0-9]+\.[0-9.]+)[\s\.．]+(.*)', text): [0-9.]+ gives back characters
\* until one of [\s.．] follows it
MatchDotted(text) ==
    LET a == SkipRun(text, 0, Digits)
        m == Run(Drop(text, a + 1), Digits \cup {"."})
    IN  /\ a > 0
        /\ LitAt(text, a, <<".">>)
        /\ \E k \in 1..m :
              /\ a + 1 + k < Len(text)
              /\ text[a + 1 + k + 1] \in Whitespace \cup {".", "fw_dot"}

identify_structure(text) ==
    LET text_lower == Strip(Lower(text))
        ch == NumeralHead(text, "zhang")
    IN  IF MatchToc(text_lower) THEN <<"toc_header", text>>
        ELSE IF text_lower \in PrefaceWords THEN <<"preface", text>>
        ELSE IF ch > 0 /\ ch = Len(text) THEN <<"chapter", text>>
        ELSE IF ch > 0 /\ (LitAt(text, ch, <<" ">>) \/ LitAt(text, ch, <<"fw_sp">>))
             THEN <<"chapter", text>>
        ELSE IF MatchDotted(text) THEN <<"section", text>>
        ELSE IF NumeralHead(text, "jie") > 0 THEN <<"section", text>>
        ELSE IF \E w \in AppendixWords : StartsWith(text_lower, w) THEN <<"appendix", text>>
        ELSE IF text_lower \in ReferencesWords THEN <<"references", text>>
        ELSE <<"content", text>>

\* the title test without its identify_structure half
IsTitle_section_only(line) == is_section_title(line)

\* the test of lines 243, 265 and 272-273: the line is a title, kept out of merging
IsTitle(line) ==
    is_section_title(line) \/ identify_structure(line)[1] \in TitleLabels

(* ------------------------------------------------------------------ *)
(* Inputs                                                              *)
(* ------------------------------------------------------------------ *)

\* most raw lines of one document
MaxLines == 3

\* n ordinary characters
Pad(n) == [k \in 1..n |-> "zi"]

\* the raw lines documents are made of: blank, page number, page marker, titles
\* (with and without surrounding blanks), a contents header, and body lines short
\* and long, with and without closing punctuation
RawLines ==
    { <<>>,
      <<" ", "1", "2">>,
      MarkerHead \o <<" ", "1", " ">> \o MarkerTail,
      <<"qian", "yan">>,
      <<" ", "di", "yi", "zhang", " ">>,
      <<"1", ".", "1", " ", "zi">>,
      <<"mu", "lu">>,
      Pad(ShortLen),
      <<"di", "yi">>,
      <<"zhang", " ">> \o Pad(ShortLen - 2),
      <<"zi", "zi", "c_stop">> }

Documents == UNION { [1..n -> RawLines] : n \in 1..MaxLines }

(* ------------------------------------------------------------------ *)
(* convert_raw_to_markdown                                             *)
(* ------------------------------------------------------------------ *)

VARIABLES
    lines,              \* content.split('\n')
    pc,                 \* the loop of convert_raw_to_markdown being run
    line_no,            \* position of the next element of lines (first loop), from 1
    current_lines,
    all_text_lines,
    i,                  \* the i of the merging loop (from 0, as in the program)
    processed_lines,
    merge_calls,        \* history: the arguments merge_lines has been called with
    proc_no,            \* position of the next element of processed_lines, from 1
    structured_content,
    rec_no,             \* position of the next element of structured_content, from 1
    md_file,            \* the strings passed to md_file.write, in order
    fn, args, ret       \* a call of one function on its own: name, arguments, <<result>>

vars == <<lines, pc, line_no, current_lines, all_text_lines, i, processed_lines,
          merge_calls, proc_no, structured_content, rec_no, md_file, fn, args, ret>>

pipeVars == <<lines, pc, line_no, current_lines, all_text_lines, i, processed_lines,
              merge_calls, proc_no, structured_content, rec_no, md_file>>

callVars == <<fn, args, ret>>

Init ==
    /\ lines \in Documents
    /\ pc = "filter"
    /\ line_no = 1
    /\ current_lines = <<>>
    /\ all_text_lines = <<>>
    /\ i = 0
    /\ processed_lines = <<>>
    /\ merge_calls = <<>>
    /\ proc_no = 1
    /\ structured_content = <<>>
    /\ rec_no = 1
    /\ md_file = <<>>
    /\ fn = "none" /\ args = <<>> /\ ret = <<>>

\* line 234: the raw line is a page marker
IsMarker(line) == StartsWith(line, MarkerHead) /\ EndsWith(line, MarkerTail)

\* line 241: the raw line is neither blank nor a header or footer
IsKept(line) == Strip(line) # <<>> /\ ~is_header_footer(Strip(line))

afterFilter == <<i, processed_lines, merge_calls, proc_no, structured_content, rec_no, md_file>>

\* the first loop treating a page marker as body text
FilterMarker_kept ==
    /\ pc = "filter" /\ line_no <= Len(lines)
    /\ IsMarker(lines[line_no])
    /\ current_lines' = Append(current_lines, Line(Strip(lines[line_no]), <<line_no>>))
    /\ line_no' = line_no + 1
    /\ UNCHANGED <<lines, pc, all_text_lines, afterFilter, callVars>>

\* lines 234-238
FilterMarker ==
    /\ pc = "filter" /\ line_no <= Len(lines)
    /\ IsMarker(lines[line_no])
    /\ all_text_lines' = all_text_lines \o current_lines
    /\ current_lines' = <<>>
    /\ line_no' = line_no + 1
    /\ UNCHANGED <<lines, pc, afterFilter, callVars>>

\* lines 241-249
FilterTitle ==
    /\ pc = "filter" /\ line_no <= Len(lines)
    /\ ~IsMarker(lines[line_no])
    /\ IsKept(lines[line_no])
    /\ IsTitle(Strip(lines[line_no]))
    /\ all_text_lines' =
          Append(all_text_lines \o current_lines, Line(Strip(lines[line_no]), <<line_no>>))
    /\ current_lines' = <<>>
    /\ line_no' = line_no + 1
    /\ UNCHANGED <<lines, pc, afterFilter, callVars>>

\* lines 241-243, 250-251
FilterBody ==
    /\ pc = "filter" /\ line_no <= Len(lines)
    /\ ~IsMarker(lines[line_no])
    /\ IsKept(lines[line_no])
    /\ ~IsTitle(Strip(lines[line_no]))
    /\ current_lines' = Append(current_lines, Line(Strip(lines[line_no]), <<line_no>>))
    /\ line_no' = line_no + 1
    /\ UNCHANGED <<lines, pc, all_text_lines, afterFilter, callVars>>

\* line 241 false: a blank line, a header or a footer
FilterSkip ==
    /\ pc = "filter" /\ line_no <= Len(lines)
    /\ ~IsMarker(lines[line_no])
    /\ ~IsKept(lines[line_no])
    /\ line_no' = line_no + 1
    /\ UNCHANGED <<lines, pc, current_lines, all_text_lines, afterFilter, callVars>>

\* lines 254-255, and the start of the merging loop
FilterEnd ==
    /\ pc = "filter" /\ line_no > Len(lines)
    /\ all_text_lines' = all_text_lines \o current_lines
    /\ pc' = "merge"
    /\ i' = 0
    /\ processed_lines' = <<>>
    /\ UNCHANGED <<lines, line_no, current_lines, merge_calls, proc_no,
                   structured_content, rec_no, md_file, callVars>>

\* the j at which the loop of lines 272-275 stops (j counts from 0)
RECURSIVE RunEnd(_, _)
RunEnd(all, j) ==
    IF j < Len(all) /\ ~IsTitle(all[j + 1].text) THEN RunEnd(all, j + 1) ELSE j

\* the merging loop putting a title before what it has already processed
MergeTitle_front ==
    /\ pc = "merge" /\ i < Len(all_text_lines)
    /\ IsTitle(all_text_lines[i + 1].text)
    /\ processed_lines' = <<all_text_lines[i + 1]>> \o processed_lines
    /\ i' = i + 1
    /\ UNCHANGED <<lines, pc, line_no, current_lines, all_text_lines, merge_calls, proc_no,
                   structured_content, rec_no, md_file, callVars>>

\* lines 265-267
MergeTitle ==
    /\ pc = "merge" /\ i < Len(all_text_lines)
    /\ IsTitle(all_text_lines[i + 1].text)
    /\ processed_lines' = Append(processed_lines, all_text_lines[i + 1])
    /\ i' = i + 1
    /\ UNCHANGED <<lines, pc, line_no, current_lines, all_text_lines, merge_calls, proc_no,
                   structured_content, rec_no, md_file, callVars>>

\* lines 268-280
MergeRun ==
    /\ pc = "merge" /\ i < Len(all_text_lines)
    /\ ~IsTitle(all_text_lines[i + 1].text)
    /\ LET j == RunEnd(all_text_lines, i + 1)
           non_title_lines == SubSeq(all_text_lines, i + 1, j)
           merged == merge_lines(non_title_lines)
       IN  /\ processed_lines' = processed_lines \o merged
           /\ merge_calls' = Append(merge_calls, non_title_lines)
           /\ i' = j
    /\ UNCHANGED <<lines, pc, line_no, current_lines, all_text_lines, proc_no,
                   structured_content, rec_no, md_file, callVars>>

\* line 261 false, and the start of the loop of line 286
MergeEnd ==
    /\ pc = "merge" /\ i >= Len(all_text_lines)
    /\ pc' = "classify"
    /\ structured_content' = <<>>
    /\ proc_no' = 1
    /\ UNCHANGED <<lines, line_no, current_lines, all_text_lines, i, processed_lines,
                   merge_calls, rec_no, md_file, callVars>>

\* a record (structure_type, content); the content keeps the line's src
Record(line) == <<identify_structure(line.text)[1],
                  Line(identify_structure(line.text)[2], line.src)>>

\* lines 288-298, one element of processed_lines
Classify ==
    /\ pc = "classify" /\ proc_no <= Len(processed_lines)
    /\ LET rec == Record(processed_lines[proc_no])
       IN  structured_content' =
               IF rec[1] = "content" THEN Append(structured_content, rec)
               ELSE IF rec[1] \in TocLabels THEN structured_content
               ELSE Append(structured_content, rec)
    /\ proc_no' = proc_no + 1
    /\ UNCHANGED <<lines, pc, line_no, current_lines, all_text_lines, i, processed_lines,
                   merge_calls, rec_no, md_file, callVars>>

\* the loop of line 286 is over; the file is opened (line 302)
ClassifyEnd ==
    /\ pc = "classify" /\ proc_no > Len(processed_lines)
    /\ pc' = "render"
    /\ rec_no' = 1
    /\ md_file' = <<>>
    /\ UNCHANGED <<lines, line_no, current_lines, all_text_lines, i, processed_lines,
                   merge_calls, proc_no, structured_content, callVars>>

NL == <<"nl">>
Rule == <<"-", "-", "-">> \o NL \o NL
Footer == <<"*", "PDF2MD", "*">> \o NL

\* the rendering with a rule after a section heading too
Writes_section_rule(structure_type, content) ==
    IF structure_type \in {"preface", "chapter", "appendix", "references"}
    THEN << <<"#", " ">> \o content \o NL \o NL, Rule >>
    ELSE IF structure_type = "section"
         THEN << <<"#", "#", " ">> \o content \o NL \o NL, Rule >>
    ELSE << content \o NL \o NL >>

\* lines 304-319: the strings written for one record
Writes(structure_type, content) ==
    IF structure_type = "preface" THEN << <<"#", " ">> \o content \o NL \o NL, Rule >>
    ELSE IF structure_type = "chapter" THEN << <<"#", " ">> \o content \o NL \o NL, Rule >>
    ELSE IF structure_type = "section" THEN << <<"#", "#", " ">> \o content \o NL \o NL >>
    ELSE IF structure_type = "appendix" THEN << <<"#", " ">> \o content \o NL \o NL, Rule >>
    ELSE IF structure_type = "references"
         THEN << <<"#", " ">> \o content \o NL \o NL, Rule >>
    ELSE << content \o NL \o NL >>

\* lines 303-319, one record
Render ==
    /\ pc = "render" /\ rec_no <= Len(structured_content)
    /\ md_file' =
          md_file \o Writes(structured_content[rec_no][1], structured_content[rec_no][2].text)
    /\ rec_no' = rec_no + 1
    /\ UNCHANGED <<lines, pc, line_no, current_lines, all_text_lines, i, processed_lines,
                   merge_calls, proc_no, structured_content, callVars>>

\* lines 322-323
RenderFooter ==
    /\ pc = "render" /\ rec_no > Len(structured_content)
    /\ md_file' = md_file \o << NL \o NL \o Rule, Footer >>
    /\ pc' = "done"
    /\ UNCHANGED <<lines, line_no, current_lines, all_text_lines, i, processed_lines,
                   merge_calls, proc_no, structured_content, rec_no, callVars>>

Next ==
    \/ FilterMarker
    \/ FilterTitle
    \/ FilterBody
    \/ FilterSkip
    \/ FilterEnd
    \/ MergeTitle
    \/ MergeRun
    \/ MergeEnd
    \/ Classify
    \/ ClassifyEnd
    \/ Render
    \/ RenderFooter

Spec == Init /\ [][Next]_vars

(* ------------------------------------------------------------------ *)
(* The functions called on their own                                   *)
(* ------------------------------------------------------------------ *)

\* most padding characters of an argument of should_merge_lines
MaxPad == 10

\* most lines of an argument of merge_lines
MaxMerge == 3

Blanks == { <<>>, <<" ">>, <<"fw_sp">>, <<"tab">>, <<" ", " ">> }

\* arguments of is_header_footer: page numbers, markers, keywords and body text,
\* bare and between blanks, and the blank strings themselves
NoiseTexts ==
    { pre \o core \o suf :
        pre \in Blanks, suf \in Blanks,
        core \in { <<>>, <<"1", "2">>, <<"1", "zi">>,
                   MarkerHead \o <<" ", "1", " ">> \o MarkerTail,
                   MarkerHead \o <<" ">> \o MarkerTail,
                   <<"ye">>, KwPage, <<"di", " ", "3", " ", "ye">>, <<"di", "ye">>,
                   KwPage \o <<" ", "1", " ", "o", "f", " ", "2">>,
                   <<"copy">>, <<"zi", "ban", "quan", "suo", "you">>, <<"zi">> } }

\* arguments of is_section_title and identify_structure: stripped lines that open
\* like a title of each kind, followed by nothing, a separator or text
TitleTexts ==
    { Strip(head \o rest) :
        head \in { <<"di", "yi", "zhang">>, <<"di", "shi", "1", "zhang">>,
                   <<"di", "zhang">>, <<"di", "yi", "jie">>, <<"di", "yi">>,
                   <<"qian", "yan">>, <<"P", "r", "e", "f", "a", "c", "e">>,
                   <<"mu", " ", "lu">>, KwContents,
                   <<"1", ".", "1">>, <<"1", ".">>, <<"1", "2", ".", "3", ".", "4">>,
                   <<"fu", "lu">>, <<"A", "p", "p", "e", "n", "d", "i", "x">>,
                   <<"can", "kao", "wen", "xian">>, <<"zi">> },
        rest \in { <<>>, <<" ", "zi">>, <<"fw_sp", "zi">>, <<"zi">>, <<".", "zi">>,
                   <<"fw_dot", "zi">>, <<" ">> } } \ { <<>> }

\* first arguments of should_merge_lines: empty, short and long strings around the
\* length ShortLen, closing with each mark or none, opening with a mark or not
MergeLefts ==
    { pre \o Pad(m) \o suf :
        m \in 0..MaxPad,
        pre \in { <<>>, <<".">> },
        suf \in { <<>> } \cup { <<p>> : p \in EndPunctuation } }

\* second arguments of should_merge_lines: the same, opening with each mark or none
MergeRights ==
    { pre \o Pad(m) \o suf :
        m \in 0..MaxPad,
        pre \in { <<>> } \cup { <<p>> : p \in StartPunctuation },
        suf \in { <<>>, <<".">> } }

\* the lines the arguments of merge_lines are made of
MergeLineTexts ==
    { <<"zi">>, <<"zi", ".">>, <<"c_stop", "zi">>, Pad(ShortLen - 1), Pad(ShortLen),
      Pad(ShortLen) \o <<":">> }

\* a list of strings as lines, each with its position as src
Numbered(texts) == [q \in 1..Len(texts) |-> Line(texts[q], <<q>>)]

MergeInputs == { Numbered(t) : t \in UNION { [1..m -> MergeLineTexts] : m \in 0..MaxMerge } }

idle ==
    /\ lines = <<>> /\ line_no = 1 /\ current_lines = <<>> /\ all_text_lines = <<>>
    /\ i = 0 /\ processed_lines = <<>> /\ merge_calls = <<>> /\ proc_no = 1
    /\ structured_content = <<>> /\ rec_no = 1 /\ md_file = <<>>

InitCall ==
    /\ idle /\ pc = "call"
    /\ ret = <<>>
    /\ \/ fn = "is_header_footer" /\ args \in { <<t>> : t \in NoiseTexts }
       \/ fn = "should_merge_lines" /\ args \in MergeLefts \X MergeRights
       \/ fn = "merge_lines" /\ args \in { <<a>> : a \in MergeInputs }
       \/ fn = "is_section_title" /\ args \in { <<t>> : t \in TitleTexts }
       \/ fn = "identify_structure" /\ args \in { <<t>> : t \in TitleTexts }

Call_is_header_footer ==
    /\ fn = "is_header_footer" /\ ret = <<>>
    /\ ret' = << is_header_footer(args[1]) >>
    /\ UNCHANGED <<pipeVars, fn, args>>

Call_should_merge_lines ==
    /\ fn = "should_merge_lines" /\ ret = <<>>
    /\ ret' = << should_merge_lines(args[1], args[2]) >>
    /\ UNCHANGED <<pipeVars, fn, args>>

Call_merge_lines ==
    /\ fn = "merge_lines" /\ ret = <<>>
    /\ ret' = << merge_lines(args[1]) >>
    /\ UNCHANGED <<pipeVars, fn, args>>

Call_is_section_title ==
    /\ fn = "is_section_title" /\ ret = <<>>
    /\ ret' = << is_section_title(args[1]) >>
    /\ UNCHANGED <<pipeVars, fn, args>>

Call_identify_structure ==
    /\ fn = "identify_structure" /\ ret = <<>>
    /\ ret' = << identify_structure(args[1]) >>
    /\ UNCHANGED <<pipeVars, fn, args>>

NextCall ==
    \/ Call_is_header_footer
    \/ Call_should_merge_lines
    \/ Call_merge_lines
    \/ Call_is_section_title
    \/ Call_identify_structure

SpecCall == InitCall /\ [][NextCall]_vars

(* ------------------------------------------------------------------ *)
(* The rendering loop on any list of records                           *)
(* ------------------------------------------------------------------ *)

\* most records of a list given to the rendering loop
MaxRecords == 3

RecordLabels == TitleLabels \cup {"content"}

Records ==
    { <<label, Line(text, <<>>)>> :
        label \in RecordLabels, text \in { <<"zi">>, <<"di", "yi", "zhang">> } }

InitRender ==
    /\ lines = <<>> /\ line_no = 1 /\ current_lines = <<>> /\ all_text_lines = <<>>
    /\ i = 0 /\ processed_lines = <<>> /\ merge_calls = <<>> /\ proc_no = 1
    /\ structured_content \in UNION { [1..m -> Records] : m \in 0..MaxRecords }
    /\ pc = "render" /\ rec_no = 1 /\ md_file = <<>>
    /\ fn = "none" /\ args = <<>> /\ ret = <<>>

NextRender ==
    \/ Render
    \/ RenderFooter

SpecRender == InitRender /\ [][NextRender]_vars

(* ------------------------------------------------------------------ *)
(* Properties                                                          *)
(* ------------------------------------------------------------------ *)

Done == pc = "done"

Range(f) == { f[q] : q \in DOMAIN f }

RECURSIVE Flatten(_)
Flatten(ss) == IF ss = <<>> THEN <<>> ELSE Head(ss) \o Flatten(Tail(ss))

Texts(ls) == [q \in 1..Len(ls) |-> ls[q].text]

Srcs(ls) == [q \in 1..Len(ls) |-> ls[q].src]

Increasing(f) == \A a, b \in DOMAIN f : a < b => f[a] < f[b]

\* the lines of the records emitted so far
RecordLines == [q \in 1..Len(structured_content) |-> structured_content[q][2]]

\* the positions of the raw lines that pass the filter
KeptNos == { m \in 1..Len(lines) : ~IsMarker(lines[m]) /\ IsKept(lines[m]) }

\* heading-like, as the claims put it: is_section_title holds or identify_structure
\* gives one of the five title labels
HeadingLike(t) ==
    is_section_title(t)
      \/ identify_structure(t)[1] \in {"preface", "chapter", "section", "appendix", "references"}

HeadingNos == { m \in KeptNos : HeadingLike(Strip(lines[m])) }

\* C1: a kept heading-like line is never given to merge_lines, and at the end it is
\* the whole of exactly one record: the record's text is the stripped line and no
\* other line is part of it, and no other record holds the line.
C1_HeadingsStandAlone ==
    /\ \A c \in 1..Len(merge_calls) : \A q \in 1..Len(merge_calls[c]) :
          ~HeadingLike(merge_calls[c][q].text)
    /\ Done =>
         \A m \in HeadingNos :
            /\ Cardinality({ q \in 1..Len(RecordLines) : m \in Range(RecordLines[q].src) }) = 1
            /\ \A q \in 1..Len(RecordLines) :
                  m \in Range(RecordLines[q].src) =>
                     RecordLines[q] = Line(Strip(lines[m]), <<m>>)

\* C1 witness: two neighbouring heading lines, both shorter than 10 characters,
\* have become two records of their own.
C1_Witness ==
    /\ Done
    /\ {1, 2} \subseteq HeadingNos
    /\ Len(Strip(lines[1])) < 10 /\ Len(Strip(lines[2])) < 10
    /\ Len(RecordLines) >= 2
    /\ RecordLines[1].src = <<1>> /\ RecordLines[2].src = <<2>>

\* C2: no text of a line that identify_structure labels toc_header is part of an
\* emitted record.
C2_TocContributesNothing ==
    Done =>
      \A q \in 1..Len(RecordLines) : \A m \in Range(RecordLines[q].src) :
         identify_structure(Strip(lines[m]))[1] # "toc_header"

\* C3 as stated: no record holds text from both sides of a page marker.
C3_NoRecordAcrossMarker ==
    Done =>
      \A q \in 1..Len(RecordLines) : \A a, b \in Range(RecordLines[q].src) :
         \A d \in 1..Len(lines) : a < d /\ d < b => ~IsMarker(lines[d])

\* C3 amended: page markers are dropped and leave no trace: once the first loop is
\* over, all_text_lines is exactly the stripped kept lines in input order, whether
\* or not markers stood between them, and no record holds text of a marker line.
C3_MarkersLeaveNoTrace ==
    /\ pc # "filter" =>
         /\ Increasing(Flatten(Srcs(all_text_lines)))
         /\ Range(Flatten(Srcs(all_text_lines))) =
               { m \in 1..Len(lines) :
                   ~(StartsWith(lines[m], MarkerHead) /\ EndsWith(lines[m], MarkerTail))
                   /\ IsKept(lines[m]) }
         /\ \A q \in 1..Len(all_text_lines) :
               /\ Len(all_text_lines[q].src) = 1
               /\ all_text_lines[q].text = Strip(lines[all_text_lines[q].src[1]])
    /\ Done =>
         \A q \in 1..Len(RecordLines) : \A m \in Range(RecordLines[q].src) :
            ~(StartsWith(lines[m], MarkerHead) /\ EndsWith(lines[m], MarkerTail))

\* C3 witness: a record made of the line before and the line after a page marker.
C3_Witness ==
    /\ Done
    /\ Len(lines) = 3 /\ IsMarker(lines[2])
    /\ \E q \in 1..Len(RecordLines) : RecordLines[q].src = <<1, 3>>

\* C8: the records carry the kept lines in input order: read record by record, the
\* positions of the raw lines in the records only go up.
C8_OrderPreserved == Increasing(Flatten(Srcs(RecordLines)))

\* C8 witness: a title, body text and a second title came out as three records.
C8_Witness ==
    /\ Done
    /\ Len(structured_content) = 3
    /\ structured_content[1][1] \in TitleLabels
    /\ structured_content[2][1] = "content"
    /\ structured_content[3][1] \in TitleLabels

\* C10: every record with a title label is one stripped input line.
C10_TitleRecordsAreInputLines ==
    Done =>
      \A q \in 1..Len(structured_content) :
         structured_content[q][1] \in TitleLabels =>
            /\ Len(RecordLines[q].src) = 1
            /\ RecordLines[q].text = Strip(lines[RecordLines[q].src[1]])

\* C4 as stated: is_section_title holds exactly when identify_structure gives one of
\* the five title labels.
C4_SectionTitleIffTitleLabel ==
    fn = "is_section_title" /\ ret # <<>> =>
       (ret[1] <=> identify_structure(args[1])[1] \in
                      {"preface", "chapter", "section", "appendix", "references"})

\* C4 amended: on a stripped line, is_section_title holding implies that
\* identify_structure gives chapter or section (the converse does not hold).
C4_SectionTitleImpliesTitleLabel ==
    fn = "is_section_title" /\ ret # <<>> /\ ret[1] =>
       identify_structure(args[1])[1] \in {"chapter", "section"}

\* C4 witness: is_section_title has accepted a line that identify_structure labels
\* section.
C4_Witness ==
    /\ fn = "is_section_title" /\ ret = <<TRUE>>
    /\ identify_structure(args[1])[1] = "section"

\* C5: is_header_footer returns true for every empty or whitespace-only string.
C5_BlankIsNoise ==
    fn = "is_header_footer" /\ ret # <<>> /\ Strip(args[1]) = <<>> => ret[1] = TRUE

\* C6: should_merge_lines(a, b) is true exactly when a and b are non-empty, a does
\* not end and b does not begin with one of the ten marks, and a and b are not both
\* shorter than 10 characters; so it is false when a ends or b begins with a full stop.
C6_ShouldMergeRule ==
    fn = "should_merge_lines" /\ ret # <<>> =>
       LET a == args[1]
           b == args[2]
           marks == {"c_stop", "c_excl", "c_ques", "c_semi", "c_colon",
                     ".", "!", "?", ";", ":"}
       IN  /\ ret[1] <=> /\ a # <<>> /\ b # <<>>
                         /\ a[Len(a)] \notin marks
                         /\ b[1] \notin marks
                         /\ ~(Len(a) < 10 /\ Len(b) < 10)
           /\ a # <<>> /\ b # <<>> /\ (a[Len(a)] = "." \/ b[1] = ".") => ~ret[1]

\* C6 witness: a short line and a line of 10 characters or more were merged.
C6_Witness ==
    /\ fn = "should_merge_lines" /\ ret = <<TRUE>>
    /\ Len(args[1]) < 10 /\ Len(args[2]) >= 10

\* C7: merge_lines is the left fold. Every output line is a run of neighbouring
\* input lines joined with no separator; within a run each line was accepted by
\* should_merge_lines against what was accumulated before it, and the line after
\* the run was refused against the whole run; the runs cover the input in order.
\* So an empty input gives an empty output, a non-empty input a non-empty output,
\* and output and input concatenate to the same string.
C7_MergeIsLeftFold ==
    fn = "merge_lines" /\ ret # <<>> =>
       LET in == args[1]
           out == ret[1]
           acc(a, b) == Flatten(Texts(SubSeq(in, a, b)))
       IN  /\ in = <<>> <=> out = <<>>
           /\ Flatten(Texts(out)) = Flatten(Texts(in))
           /\ Flatten(Srcs(out)) = [q \in 1..Len(in) |-> q]
           /\ \A q \in 1..Len(out) :
                 LET a == out[q].src[1]
                     b == out[q].src[Len(out[q].src)]
                 IN  /\ out[q].text = acc(a, b)
                     /\ \A m \in (a + 1)..b :
                           should_merge_lines(acc(a, m - 1), in[m].text)
                     /\ b < Len(in) => ~should_merge_lines(acc(a, b), in[b + 1].text)

\* C7 witness: of three input lines two were joined and one was not.
C7_Witness ==
    /\ fn = "merge_lines" /\ ret # <<>>
    /\ Len(args[1]) = 3 /\ Len(ret[1]) = 2

\* C9: the writes are, record by record and in order, a "# " heading and a rule for
\* preface, chapter, appendix and references, a "## " heading alone for section and
\* the bare text for content, and after them the footer, once, whatever the records.
C9_RenderedInOrder ==
    Done =>
       LET nlnl == <<"nl", "nl">>
           rule == <<"-", "-", "-", "nl", "nl">>
           expected(rec) ==
               IF rec[1] \in {"preface", "chapter", "appendix", "references"}
               THEN << <<"#", " ">> \o rec[2].text \o nlnl, rule >>
               ELSE IF rec[1] = "section"
                    THEN << <<"#", "#", " ">> \o rec[2].text \o nlnl >>
               ELSE << rec[2].text \o nlnl >>
       IN  md_file =
              Flatten([q \in 1..Len(structured_content) |-> expected(structured_content[q])])
                 \o << nlnl \o rule, <<"*", "PDF2MD", "*", "nl">> >>

\* C9 witness: a chapter, a section and a content record have been rendered.
C9_Witness ==
    /\ Done
    /\ Len(structured_content) = 3
    /\ structured_content[1][1] = "chapter"
    /\ structured_content[2][1] = "section"
    /\ structured_content[3][1] = "content"

====
